---- MODULE Spec2Model ----
(***************************************************************************)
(* The ShadowVault React component (src/unnamed/part_000) and the owner    *)
(* provisioning stub (src/utils/wallet.ts) as a state machine.             *)
(*                                                                         *)
(* The state is the four useState cells of the component, the handler      *)
(* invocations suspended at an await (inflight), and history variables     *)
(* that record what the environment was asked to do.  One action models    *)
(* one synchronous run of JavaScript: from an event (a click, a promise    *)
(* settling) to the next await or the end of the handler.  React commits   *)
(* the batched state updates of such a run before the next event is        *)
(* dispatched, so the rendered view is a function of the state.            *)
(***************************************************************************)
EXTENDS Integers, Sequences, FiniteSets, TLC

VARIABLES
    apiKey,           \* PIMLICO_API_KEY, fixed at module load ("" = not set)
    buttonGuardians,  \* the list literal in GuardianButton's onClick, fixed
    smartClient,      \* useState<SmartClient | null>
    status,           \* useState('Idle')
    loading,          \* useState(false)
    error,            \* useState<string | null>
    inflight,         \* handler invocations suspended at an await
    event,            \* history: the last synchronous run that happened
    createPresses,    \* history: clicks on CREATE SECURE VAULT
    recoveryPresses,  \* history: invocations of enableRecovery
    ownerCalls,       \* history: calls of getBiometricOwner
    owners,           \* history: private keys of the owners provisioned
    sendLog,          \* history: argument of every sendTransactions call
    vaultsCreated     \* history: createVault invocations that succeeded

vars == <<apiKey, buttonGuardians, smartClient, status, loading, error,
          inflight, event,
          createPresses, recoveryPresses, ownerCalls, owners, sendLog,
          vaultsCreated>>

(***************************************************************************)
(* Bounds of the model.                                                    *)
(***************************************************************************)
MaxPresses == 3       \* handler invocations per session
MaxKey == 2           \* Math.random draws a private key in 0..MaxKey

(***************************************************************************)
(* Values.  null is the empty tuple and a value v of a nullable cell is    *)
(* <<v>>, so that null differs from every string.                          *)
(***************************************************************************)
NULL == <<>>
Val(v) == <<v>>

Min(a, b) == IF a < b THEN a ELSE b
Max(a, b) == IF a > b THEN a ELSE b

\* String.prototype.slice(start, end) on a string s.
slice(s, start, end) ==
    LET n    == Len(s)
        from == IF start < 0 THEN Max(n + start, 0) ELSE Min(start, n)
        to   == IF end < 0 THEN Max(n + end, 0) ELSE Min(end, n)
    IN  IF from >= to THEN "" ELSE SubSeq(s, from + 1, to)

\* String.prototype.slice(start): to the end of the string.
sliceFrom(s, start) == slice(s, start, Len(s))

HexDigits == "0123456789abcdef"
HexDigit(d) == SubSeq(HexDigits, d + 1, d + 1)
HexChars == { HexDigit(d) : d \in 0..15 }

\* What a rejected promise or a throw carries: an object (the libraries and
\* fetch raise Error instances) whose message is a non-empty string, an empty
\* string, or absent (hasMessage FALSE; the message field is then unused).
RaisedValues ==
    { [hasMessage |-> TRUE,  message |-> "execution reverted"],
      [hasMessage |-> TRUE,  message |-> ""],
      [hasMessage |-> FALSE, message |-> ""] }
NoRaise == [hasMessage |-> FALSE, message |-> ""]

(***************************************************************************)
(* Configuration (../constants) and the environment's values.              *)
(***************************************************************************)
ApiKeys == {"", "pim_test_key"}
RECOVERY_MODULE_ADDR == "0x00000000000000000000000000000000000a11ce"

\* Math.random: the private key is any of these; key 0 is not a valid
\* secp256k1 scalar and privateKeyToAccount throws on it.
Keys == 0..MaxKey
\* privateKeyToAccount(privateKey) returns an account for these keys only.
ValidKeys == { key \in Keys : key >= 1 }

\* toSafeSmartAccount with saltNonce 0n: the address is a function of the owner.
SafeAddresses ==
    << "0x5afe00000000000000000000000000000000a001",
       "0x5afe1111111111111111111111111111111fb002",
       "0x5afe22222222222222222222222222222222c003" >>
SafeAddress(owner) == SafeAddresses[(owner % Len(SafeAddresses)) + 1]

\* Operation hashes the bundler may answer with.
TxHashes ==
    { "0x1a2b3c4d5e6f708192a3b4c5d6e7f8091a2b3c4d5e6f708192a3b4c5d6e7f809",
      "0xffeeddccbbaa99887766554433221100ffeeddccbbaa99887766554433221100" }

\* The list the recovery button passes (two entries have 38 hex digits).
GuardianButtonList ==
    << "0xdeadbeefdeadbeefdeadbeefdeadbeefdeadbeef",
       "0x1234567890123456789012345678901234567890",
       "0xfedcba9876543210fedcba9876543210fedcba98",
       "0xabcdef1234567890abcdef1234567890abcdef",
       "0x0987654321fedcba0987654321fedcba098765" >>

WellFormedList ==
    << "0xdeadbeefdeadbeefdeadbeefdeadbeefdeadbeef",
       "0x1234567890123456789012345678901234567890",
       "0xfedcba9876543210fedcba9876543210fedcba98",
       "0xabcdef1234567890abcdef1234567890abcdef12",
       "0x0987654321fedcba0987654321fedcba09876543" >>

\* The same addresses in another order.
ReorderedList ==
    << WellFormedList[5], WellFormedList[3], WellFormedList[1],
       WellFormedList[4], WellFormedList[2] >>

\* enableRecovery's parameter, guardians: `0x${string}`[], and the lists the
\* button's literal is drawn from: the one of the source and well-formed ones.
GuardianLists == { GuardianButtonList, WellFormedList, ReorderedList }

(***************************************************************************)
(* Status strings.                                                         *)
(***************************************************************************)
IdleStatus == "Idle"
InitializingStatus == "Initializing Biometric Vault..."
\* Faulty variant of VaultActiveStatus: the suffix is cut with slice(4),
\* not slice(-4).
VaultActiveStatus_SliceSign(address) ==
    "Vault Active: " \o slice(address, 0, 6) \o "..." \o sliceFrom(address, 4)
VaultActiveStatus(address) ==
    "Vault Active: " \o slice(address, 0, 6) \o "..." \o sliceFrom(address, -4)
InitFailedStatus == "Initialization Failed"
ConfiguringStatus == "Configuring 3-of-5 Guardian Protocol..."
\* Faulty variant of RecoveryLiveStatus: the hash is shown whole.
RecoveryLiveStatus_WholeHash(txHash) ==
    "Recovery Protocol Live: " \o txHash \o "..."
RecoveryLiveStatus(txHash) ==
    "Recovery Protocol Live: " \o slice(txHash, 0, 10) \o "..."
RecoveryFailedStatus == "Recovery Setup Failed"
UnknownError == "An unknown error occurred."

\* Faulty variant of errorMessage: the fallback is missing.
errorMessage_NoFallback(err) == err.message

\* err.message || 'An unknown error occurred.'
errorMessage(err) ==
    IF err.hasMessage /\ err.message # "" THEN err.message ELSE UnknownError

(***************************************************************************)
(* Call encoding (viem).                                                   *)
(***************************************************************************)
\* Faulty variant of isAddress: the length is not checked.
isAddress_NoLengthCheck(a) ==
    /\ SubSeq(a, 1, 2) = "0x"
    /\ \A i \in 3..Len(a) : SubSeq(a, i, i) \in HexChars

\* isAddress: 0x followed by exactly 40 hex digits (the model's addresses
\* are lower case, so the checksum rule for mixed case never applies).
isAddress(a) ==
    /\ Len(a) = 42
    /\ SubSeq(a, 1, 2) = "0x"
    /\ \A i \in 3..42 : SubSeq(a, i, i) \in HexChars

RECURSIVE ToHex(_)
ToHex(n) == IF n < 16 THEN HexDigit(n) ELSE ToHex(n \div 16) \o HexDigit(n % 16)

Zeros64 == "0000000000000000000000000000000000000000000000000000000000000000"
\* One 32-byte word: the hex digits s padded on the left with zeros.
Word(s) == IF Len(s) >= 64 THEN s ELSE SubSeq(Zeros64, 1, 64 - Len(s)) \o s
UintWord(n) == Word(ToHex(n))
AddressWord(a) == Word(SubSeq(a, 3, Len(a)))

RECURSIVE AddressWords(_)
AddressWords(as) ==
    IF as = <<>> THEN "" ELSE AddressWord(Head(as)) \o AddressWords(Tail(as))

\* encodeAbiParameters('address[] guardians, uint256 threshold, uint256 delay',
\* [guardians, threshold, delay]): throws on the first guardian that is not an
\* address; else the head (offset of the array, threshold, delay) and the tail
\* (length of the array, its elements).
encodeAbiParameters(guardians, threshold, delay) ==
    LET bad == { i \in 1..Len(guardians) : ~isAddress(guardians[i]) }
    IN  IF bad # {}
        THEN LET first == CHOOSE i \in bad : \A j \in bad : i <= j
             IN  [ok |-> FALSE, data |-> "",
                  err |-> [hasMessage |-> TRUE,
                           message |-> "Address \"" \o guardians[first]
                                       \o "\" is invalid."]]
        ELSE [ok |-> TRUE,
              data |-> "0x" \o UintWord(96) \o UintWord(threshold)
                       \o UintWord(delay) \o UintWord(Len(guardians))
                       \o AddressWords(guardians),
              err |-> NoRaise]

\* encodeFunctionData({abi, functionName, args}): the call, by its name and
\* arguments.
encodeFunctionData(functionName, args) ==
    [functionName |-> functionName, args |-> args]

\* Faulty variant of RecoveryBatch: the module is set up before it is enabled.
RecoveryBatch_Swapped(client, setupData) ==
    << [to |-> RECOVERY_MODULE_ADDR,
        data |-> encodeFunctionData("setup", <<setupData>>)],
       [to |-> client.account.address,
        data |-> encodeFunctionData("enableModule", <<RECOVERY_MODULE_ADDR>>)] >>

\* The argument of sendTransactions: the two calls of the batch, in order.
RecoveryBatch(client, setupData) ==
    << [to |-> client.account.address,
        data |-> encodeFunctionData("enableModule", <<RECOVERY_MODULE_ADDR>>)],
       [to |-> RECOVERY_MODULE_ADDR,
        data |-> encodeFunctionData("setup", <<setupData>>)] >>

(***************************************************************************)
(* The rendered view, a function of the committed state.                   *)
(***************************************************************************)
\* Faulty variant of ConfigErrorView: the check of the API key is missing.
ConfigErrorView_NoCheck == FALSE
\* if (!PIMLICO_API_KEY) return <Configuration Error>
ConfigErrorView == apiKey = ""
\* Faulty variant of CreateButtonRendered: rendered with a vault too.
CreateButtonRendered_Always == apiKey # ""
\* {!smartClient ? <button onClick={createVault} disabled={loading}> : ...}
CreateButtonRendered == ~ConfigErrorView /\ smartClient = NULL
\* Faulty variant of CreateButtonEnabled: the button lacks disabled={loading}.
CreateButtonEnabled_NotDisabled == CreateButtonRendered
CreateButtonEnabled == CreateButtonRendered /\ ~loading
\* ... : <GuardianButton />, whose button has disabled={loading}
GuardianButtonRendered == ~ConfigErrorView /\ smartClient # NULL
\* Faulty variant of GuardianButtonEnabled: the button lacks disabled={loading}.
GuardianButtonEnabled_NotDisabled == GuardianButtonRendered
GuardianButtonEnabled == GuardianButtonRendered /\ ~loading

(***************************************************************************)
(* Suspended handler invocations.                                          *)
(***************************************************************************)
NoOwner == 0 - 1
Task(handler, pc, owner, client) ==
    [handler |-> handler, pc |-> pc, owner |-> owner, client |-> client]
Remove(seq, i) == SubSeq(seq, 1, i - 1) \o SubSeq(seq, i + 1, Len(seq))
Event(kind, raised, arg) == [kind |-> kind, raised |-> raised, arg |-> arg]

Presses == createPresses + recoveryPresses

Init ==
    /\ apiKey \in ApiKeys
    /\ buttonGuardians \in GuardianLists
    /\ smartClient = NULL
    /\ status = IdleStatus
    /\ loading = FALSE
    /\ error = NULL
    /\ inflight = <<>>
    /\ event = Event("mount", NoRaise, "")
    /\ createPresses = 0
    /\ recoveryPresses = 0
    /\ ownerCalls = 0
    /\ owners = <<>>
    /\ sendLog = <<>>
    /\ vaultsCreated = 0

(***************************************************************************)
(* createVault.                                                            *)
(***************************************************************************)
\* Faulty variant of createVault: setError(null) is missing.
createVault_KeepsError ==
    /\ loading' = TRUE
    /\ status' = InitializingStatus
    /\ inflight' = Append(inflight, Task("createVault", "getBiometricOwner",
                                         NoOwner, smartClient))
    /\ ownerCalls' = ownerCalls + 1
    /\ createPresses' = createPresses + 1
    /\ event' = Event("createVault", NoRaise, "")
    /\ UNCHANGED <<apiKey, buttonGuardians, smartClient, error,
                   recoveryPresses, owners, sendLog, vaultsCreated>>

\* Lines 42-48: the synchronous start, up to the await of getBiometricOwner().
createVault ==
    /\ loading' = TRUE
    /\ error' = NULL
    /\ status' = InitializingStatus
    /\ inflight' = Append(inflight, Task("createVault", "getBiometricOwner",
                                         NoOwner, smartClient))
    /\ ownerCalls' = ownerCalls + 1
    /\ createPresses' = createPresses + 1
    /\ event' = Event("createVault", NoRaise, "")
    /\ UNCHANGED <<apiKey, buttonGuardians, smartClient, recoveryPresses,
                   owners, sendLog, vaultsCreated>>

\* Faulty variant of createVaultCatch: setError is missing.
createVaultCatch_NoError(rest, err) ==
    /\ status' = InitFailedStatus
    /\ loading' = FALSE
    /\ inflight' = rest
    /\ UNCHANGED <<smartClient, error>>

\* Lines 70-77: catch and finally; rest is what stays suspended.
createVaultCatch(rest, err) ==
    /\ status' = InitFailedStatus
    /\ error' = Val(errorMessage(err))
    /\ loading' = FALSE
    /\ inflight' = rest
    /\ UNCHANGED smartClient

\* Faulty variant of createVaultSucceed: setSmartClient is missing.
createVaultSucceed_NoClient(rest, client) ==
    /\ status' = VaultActiveStatus(client.account.address)
    /\ loading' = FALSE
    /\ inflight' = rest
    /\ UNCHANGED <<smartClient, error>>

\* Lines 61-69 and 75-77: the client is built and stored; finally.
createVaultSucceed(rest, client) ==
    /\ smartClient' = Val(client)
    /\ status' = VaultActiveStatus(client.account.address)
    /\ loading' = FALSE
    /\ inflight' = rest
    /\ UNCHANGED error

\* createSmartAccountClient({account: safeAccount, ...})
createSmartAccountClient(safeAccount) == [account |-> safeAccount]

\* getBiometricOwner resolves with the account of a fresh random key; the
\* handler goes on to await toSafeSmartAccount({owner, ...}).
OwnerResolve(i, key) ==
    /\ inflight[i].handler = "createVault"
    /\ inflight[i].pc = "getBiometricOwner"
    /\ key \in ValidKeys
    /\ owners' = Append(owners, key)
    /\ inflight' = [inflight EXCEPT ![i].pc = "toSafeSmartAccount",
                                    ![i].owner = key]
    /\ event' = Event("ownerResolved", NoRaise, "")
    /\ UNCHANGED <<apiKey, buttonGuardians, smartClient, status, loading,
                   error, createPresses, recoveryPresses, ownerCalls, sendLog,
                   vaultsCreated>>

\* getBiometricOwner rejects: privateKeyToAccount threw on the random key.
OwnerReject(i, key, err) ==
    /\ inflight[i].handler = "createVault"
    /\ inflight[i].pc = "getBiometricOwner"
    /\ key \in Keys \ ValidKeys
    /\ createVaultCatch(Remove(inflight, i), err)
    /\ event' = Event("ownerRejected", err, "")
    /\ UNCHANGED <<apiKey, buttonGuardians, createPresses, recoveryPresses,
                   ownerCalls, owners, sendLog, vaultsCreated>>

\* toSafeSmartAccount resolves and createSmartAccountClient returns.
AccountResolve(i) ==
    /\ inflight[i].handler = "createVault"
    /\ inflight[i].pc = "toSafeSmartAccount"
    /\ LET safeAccount == [address |-> SafeAddress(inflight[i].owner),
                           owner |-> inflight[i].owner]
           client == createSmartAccountClient(safeAccount)
       IN  /\ createVaultSucceed(Remove(inflight, i), client)
           /\ event' = Event("vaultCreated", NoRaise, safeAccount.address)
    /\ vaultsCreated' = vaultsCreated + 1
    /\ UNCHANGED <<apiKey, buttonGuardians, createPresses, recoveryPresses,
                   ownerCalls, owners, sendLog>>

\* Faulty variant of AccountReject: the handler provisions an owner again
\* and retries instead of giving up.
AccountReject_Retries(i, err) ==
    /\ inflight[i].handler = "createVault"
    /\ inflight[i].pc = "toSafeSmartAccount"
    /\ inflight' = [inflight EXCEPT ![i].pc = "getBiometricOwner",
                                    ![i].owner = NoOwner]
    /\ ownerCalls' = ownerCalls + 1
    /\ event' = Event("accountRejected", err, "")
    /\ UNCHANGED <<apiKey, buttonGuardians, smartClient, status, loading,
                   error, createPresses, recoveryPresses, owners, sendLog,
                   vaultsCreated>>

\* toSafeSmartAccount rejects.
AccountReject(i, err) ==
    /\ inflight[i].handler = "createVault"
    /\ inflight[i].pc = "toSafeSmartAccount"
    /\ createVaultCatch(Remove(inflight, i), err)
    /\ event' = Event("accountRejected", err, "")
    /\ UNCHANGED <<apiKey, buttonGuardians, createPresses, recoveryPresses,
                   ownerCalls, owners, sendLog, vaultsCreated>>

\* Faulty variant of ClientThrow: the throw comes after setSmartClient(client).
ClientThrow_AfterSet(i, err) ==
    /\ inflight[i].handler = "createVault"
    /\ inflight[i].pc = "toSafeSmartAccount"
    /\ status' = InitFailedStatus
    /\ error' = Val(errorMessage(err))
    /\ loading' = FALSE
    /\ inflight' = Remove(inflight, i)
    /\ smartClient' = Val(createSmartAccountClient(
                          [address |-> SafeAddress(inflight[i].owner),
                           owner |-> inflight[i].owner]))
    /\ event' = Event("clientThrew", err, "")
    /\ UNCHANGED <<apiKey, buttonGuardians, createPresses, recoveryPresses,
                   ownerCalls, owners, sendLog, vaultsCreated>>

\* toSafeSmartAccount resolves and createSmartAccountClient throws.
ClientThrow(i, err) ==
    /\ inflight[i].handler = "createVault"
    /\ inflight[i].pc = "toSafeSmartAccount"
    /\ createVaultCatch(Remove(inflight, i), err)
    /\ event' = Event("clientThrew", err, "")
    /\ UNCHANGED <<apiKey, buttonGuardians, createPresses, recoveryPresses,
                   ownerCalls, owners, sendLog, vaultsCreated>>

(***************************************************************************)
(* enableRecovery.                                                         *)
(***************************************************************************)
\* Line 88: [guardians, 3n, 48n * 3600n]
Threshold == 3
\* Faulty variant of Delay: the hours are converted to minutes.
Delay_InMinutes == 48 * 60
Delay == 48 * 3600

\* Faulty variant of enableRecoveryCatch: the failure also drops the client.
enableRecoveryCatch_DropsClient(rest, err) ==
    /\ status' = RecoveryFailedStatus
    /\ error' = Val(errorMessage(err))
    /\ loading' = FALSE
    /\ inflight' = rest
    /\ smartClient' = NULL

\* Faulty variant of enableRecoveryCatch: setLoading(false) is missing.
enableRecoveryCatch_NoFinally(rest, err) ==
    /\ status' = RecoveryFailedStatus
    /\ error' = Val(errorMessage(err))
    /\ inflight' = rest
    /\ UNCHANGED <<smartClient, loading>>

\* Lines 116-122: catch and finally; rest is what stays suspended.
enableRecoveryCatch(rest, err) ==
    /\ status' = RecoveryFailedStatus
    /\ error' = Val(errorMessage(err))
    /\ loading' = FALSE
    /\ inflight' = rest
    /\ UNCHANGED smartClient

\* Lines 115 and 120-122: the hash is shown; finally.
enableRecoverySucceed(rest, txHash) ==
    /\ status' = RecoveryLiveStatus(txHash)
    /\ loading' = FALSE
    /\ inflight' = rest
    /\ UNCHANGED <<smartClient, error>>

\* Lines 82-113: the state updates, the encoding and the sendTransactions
\* call, up to its await; an encoding failure is caught in the same run.
enableRecoveryStart(guardians) ==
    LET enc == encodeAbiParameters(guardians, Threshold, Delay)
    IN  IF enc.ok
        THEN /\ loading' = TRUE
             /\ error' = NULL
             /\ status' = ConfiguringStatus
             /\ sendLog' = Append(sendLog,
                                  RecoveryBatch(smartClient[1], enc.data))
             /\ inflight' = Append(inflight,
                                   Task("enableRecovery", "sendTransactions",
                                        NoOwner, smartClient))
             /\ event' = Event("sendTransactions", NoRaise, enc.data)
             /\ UNCHANGED smartClient
        ELSE /\ enableRecoveryCatch(inflight, enc.err)
             /\ event' = Event("encodeThrew", enc.err, "")
             /\ UNCHANGED sendLog

\* Faulty variant of enableRecovery: the null check is missing, so that with
\* no client the dereference of smartClient throws a TypeError inside the try.
enableRecovery_NoNullCheck(guardians) ==
    /\ recoveryPresses' = recoveryPresses + 1
    /\ IF smartClient = NULL
       THEN LET raised == [hasMessage |-> TRUE,
                           message |-> "Cannot read properties of null"]
            IN  /\ enableRecoveryCatch(inflight, raised)
                /\ event' = Event("encodeThrew", raised, "")
                /\ UNCHANGED sendLog
       ELSE enableRecoveryStart(guardians)
    /\ UNCHANGED <<apiKey, buttonGuardians, createPresses, ownerCalls, owners,
                   vaultsCreated>>

\* Faulty variant of enableRecovery: the null check comes after setLoading(true)
\* and setError(null).
enableRecovery_LoadingBeforeCheck(guardians) ==
    /\ recoveryPresses' = recoveryPresses + 1
    /\ IF smartClient = NULL
       THEN /\ loading' = TRUE
            /\ error' = NULL
            /\ event' = Event("enableRecoveryReturned", NoRaise, "")
            /\ UNCHANGED <<smartClient, status, inflight, sendLog>>
       ELSE enableRecoveryStart(guardians)
    /\ UNCHANGED <<apiKey, buttonGuardians, createPresses, ownerCalls, owners,
                   vaultsCreated>>

\* Lines 80-81: if (!smartClient) return; else the start above.
enableRecovery(guardians) ==
    /\ recoveryPresses' = recoveryPresses + 1
    /\ IF smartClient = NULL
       THEN /\ event' = Event("enableRecoveryReturned", NoRaise, "")
            /\ UNCHANGED <<smartClient, status, loading, error, inflight,
                           sendLog>>
       ELSE enableRecoveryStart(guardians)
    /\ UNCHANGED <<apiKey, buttonGuardians, createPresses, ownerCalls, owners,
                   vaultsCreated>>

\* sendTransactions resolves with the hash.
SendResolve(i, txHash) ==
    /\ inflight[i].handler = "enableRecovery"
    /\ inflight[i].pc = "sendTransactions"
    /\ enableRecoverySucceed(Remove(inflight, i), txHash)
    /\ event' = Event("sendResolved", NoRaise, txHash)
    /\ UNCHANGED <<apiKey, buttonGuardians, createPresses, recoveryPresses,
                   ownerCalls, owners, sendLog, vaultsCreated>>

\* sendTransactions rejects.
SendReject(i, err) ==
    /\ inflight[i].handler = "enableRecovery"
    /\ inflight[i].pc = "sendTransactions"
    /\ enableRecoveryCatch(Remove(inflight, i), err)
    /\ event' = Event("sendRejected", err, "")
    /\ UNCHANGED <<apiKey, buttonGuardians, createPresses, recoveryPresses,
                   ownerCalls, owners, sendLog, vaultsCreated>>

(***************************************************************************)
(* The component: a handler runs when its button is clicked, and a         *)
(* suspended invocation goes on when the promise it awaits settles.        *)
(***************************************************************************)
ClickCreateVault ==
    /\ CreateButtonEnabled
    /\ Presses < MaxPresses
    /\ createVault

ClickGuardianButton ==
    /\ GuardianButtonEnabled
    /\ Presses < MaxPresses
    /\ enableRecovery(buttonGuardians)

Next ==
    \/ ClickCreateVault
    \/ ClickGuardianButton
    \/ \E i \in 1..Len(inflight), key \in Keys : OwnerResolve(i, key)
    \/ \E i \in 1..Len(inflight), key \in Keys, err \in RaisedValues :
            OwnerReject(i, key, err)
    \/ \E i \in 1..Len(inflight) : AccountResolve(i)
    \/ \E i \in 1..Len(inflight), err \in RaisedValues : AccountReject(i, err)
    \/ \E i \in 1..Len(inflight), err \in RaisedValues : ClientThrow(i, err)
    \/ \E i \in 1..Len(inflight), txHash \in TxHashes : SendResolve(i, txHash)
    \/ \E i \in 1..Len(inflight), err \in RaisedValues : SendReject(i, err)

Spec == Init /\ [][Next]_vars

(***************************************************************************)
(* The handlers as functions: invoked in any state of a configured         *)
(* component, whatever the buttons show.                                   *)
(***************************************************************************)
CallCreateVault ==
    /\ ~ConfigErrorView
    /\ Presses < MaxPresses
    /\ createVault

CallEnableRecovery(guardians) ==
    /\ ~ConfigErrorView
    /\ Presses < MaxPresses
    /\ enableRecovery(guardians)

HandlerNext ==
    \/ CallCreateVault
    \/ \E guardians \in GuardianLists : CallEnableRecovery(guardians)
    \/ \E i \in 1..Len(inflight), key \in Keys : OwnerResolve(i, key)
    \/ \E i \in 1..Len(inflight), key \in Keys, err \in RaisedValues :
            OwnerReject(i, key, err)
    \/ \E i \in 1..Len(inflight) : AccountResolve(i)
    \/ \E i \in 1..Len(inflight), err \in RaisedValues : AccountReject(i, err)
    \/ \E i \in 1..Len(inflight), err \in RaisedValues : ClientThrow(i, err)
    \/ \E i \in 1..Len(inflight), txHash \in TxHashes : SendResolve(i, txHash)
    \/ \E i \in 1..Len(inflight), err \in RaisedValues : SendReject(i, err)

HandlerSpec == Init /\ [][HandlerNext]_vars

(***************************************************************************)
(* Properties.                                                             *)
(***************************************************************************)
HasTask(handler) == \E i \in 1..Len(inflight) : inflight[i].handler = handler

\* C1: a recovery-enabling action (the status 'Configuring...', a call of
\* sendTransactions, a suspended enableRecovery) happens only when a smart
\* account client exists; a client exists only after a createVault invocation
\* has succeeded; while there is no client the recovery button is not rendered
\* and an invocation of enableRecovery changes nothing.
C1_RecoveryNeedsClient ==
    /\ [](/\ (status = ConfiguringStatus => smartClient # NULL)
          /\ (sendLog # <<>> => smartClient # NULL)
          /\ (HasTask("enableRecovery") => smartClient # NULL)
          /\ (smartClient # NULL => vaultsCreated > 0)
          /\ (smartClient = NULL =>
                /\ ~GuardianButtonRendered
                /\ ~ENABLED ClickGuardianButton))
    /\ [][(recoveryPresses' # recoveryPresses /\ smartClient = NULL) =>
            UNCHANGED <<smartClient, status, loading, error, inflight, sendLog,
                        ownerCalls, owners>>]_vars

\* A batch has been sent through a client that a successful createVault stored.
C1_Witness ==
    /\ event.kind = "sendTransactions"
    /\ status = ConfiguringStatus
    /\ Len(sendLog) = 1
    /\ smartClient # NULL
    /\ vaultsCreated = 1

\* C2: loading is true exactly while an action is in flight: true from the
\* start of createVault or enableRecovery that suspends at an external call,
\* false again once that call has resolved or rejected.
C2_LoadingIffInFlight == loading <=> (inflight # <<>>)

\* A submission was rejected and loading is false with nothing in flight.
C2_Witness ==
    /\ event.kind = "sendRejected"
    /\ ~loading
    /\ inflight = <<>>

\* C3: at most one action is in flight, and while loading is true (or an action
\* is in flight) neither button can start a handler.
C3_AtMostOneInFlight ==
    /\ Len(inflight) <= 1
    /\ (loading \/ inflight # <<>>) =>
          /\ ~ENABLED ClickCreateVault
          /\ ~ENABLED ClickGuardianButton

\* An action is in flight after an earlier one has ended, with presses left.
C3_Witness ==
    /\ Len(inflight) = 1
    /\ loading
    /\ Presses = 2
    /\ Presses < MaxPresses

CreateVaultFailures == {"ownerRejected", "accountRejected", "clientThrew"}
EnableRecoveryFailures == {"encodeThrew", "sendRejected"}
EnableRecoveryEvents ==
    EnableRecoveryFailures
        \cup {"enableRecoveryReturned", "sendTransactions", "sendResolved"}

\* C4: createVault sets the status to the initializing status, keeps it while
\* it is suspended, and ends with 'Vault Active: ' followed by the first 6
\* characters, '...' and the last 4 characters of the client's address, or
\* with 'Initialization Failed' and a non-empty error string; it produces no
\* other status.
C4_CreateVaultStatus ==
    /\ [](/\ (HasTask("createVault") =>
                status = "Initializing Biometric Vault...")
          /\ (event.kind = "vaultCreated" =>
                LET address == smartClient[1].account.address
                IN  /\ Len(address) = 42
                    /\ status = "Vault Active: " \o SubSeq(address, 1, 6)
                                \o "..." \o SubSeq(address, 39, 42))
          /\ (event.kind \in CreateVaultFailures =>
                /\ status = "Initialization Failed"
                /\ error # NULL
                /\ error[1] # ""))
    /\ [][HasTask("createVault") /\ status' # status =>
            /\ status = "Initializing Biometric Vault..."
            /\ event'.kind \in CreateVaultFailures \cup {"vaultCreated"}]_vars

\* A vault was created for the owner with key 1.
C4_Witness ==
    /\ event.kind = "vaultCreated"
    /\ smartClient[1].account.address
          = "0x5afe1111111111111111111111111111111fb002"
    /\ status = "Vault Active: 0x5afe...b002"

\* C5: when createVault fails at owner provisioning, account construction or
\* client construction, the client is null after the action, nothing stays in
\* flight and the create button is rendered and enabled.
C5_FailedCreateLeavesNoVault ==
    event.kind \in CreateVaultFailures =>
        /\ smartClient = NULL
        /\ inflight = <<>>
        /\ ~loading
        /\ CreateButtonRendered
        /\ ~GuardianButtonRendered
        /\ (Presses < MaxPresses => ENABLED ClickCreateVault)

\* Client construction threw and there is no vault.
C5_Witness ==
    /\ event.kind = "clientThrew"
    /\ status = InitFailedStatus
    /\ smartClient = NULL
    /\ Len(owners) = 1

\* C6: enableRecovery with a client ends with 'Recovery Protocol Live: '
\* followed by the first 10 characters of the hash and '...', error null, when
\* the submission succeeds, and with 'Recovery Setup Failed' and an error when
\* encoding or submission fails.
C6_EnableRecoveryOutcome ==
    /\ event.kind = "sendResolved" =>
          /\ Len(event.arg) = 66
          /\ status = "Recovery Protocol Live: " \o SubSeq(event.arg, 1, 10)
                      \o "..."
          /\ error = NULL
          /\ inflight = <<>>
    /\ event.kind \in EnableRecoveryFailures =>
          /\ status = "Recovery Setup Failed"
          /\ error # NULL
          /\ inflight = <<>>
    /\ HasTask("enableRecovery") => status = ConfiguringStatus

\* A submission resolved with the first hash.
C6_Witness ==
    /\ event.kind = "sendResolved"
    /\ status = "Recovery Protocol Live: 0x1a2b3c4d..."
    /\ error = NULL

\* C7: no step of enableRecovery (early return, encoding failure, submission,
\* success, submission failure) changes the client, and after a failed
\* recovery setup the vault view with its address is still rendered.
C7_EnableRecoveryKeepsClient ==
    /\ [][event'.kind \in EnableRecoveryEvents =>
            smartClient' = smartClient]_vars
    /\ [](event.kind \in EnableRecoveryFailures =>
            /\ smartClient # NULL
            /\ GuardianButtonRendered)

\* A submission failed and the client is still there.
C7_Witness ==
    /\ event.kind = "sendRejected"
    /\ status = RecoveryFailedStatus
    /\ smartClient # NULL
    /\ smartClient[1].account.address \in { SafeAddress(k) : k \in ValidKeys }

\* The states of section 4.4 of the specification, read off the component state.
RecoveryLivePrefix == "Recovery Protocol Live: "
UIState ==
    IF smartClient = NULL
    THEN IF loading THEN "Creating" ELSE "NoVault"
    ELSE IF loading THEN "ConfiguringRecovery"
         ELSE IF slice(status, 0, Len(RecoveryLivePrefix)) = RecoveryLivePrefix
              THEN "RecoveryReady"
              ELSE "VaultReady"

ClaimedTransitions ==
    { <<"NoVault", "Creating">>, <<"Creating", "VaultReady">>,
      <<"Creating", "NoVault">>, <<"VaultReady", "ConfiguringRecovery">>,
      <<"ConfiguringRecovery", "RecoveryReady">>,
      <<"ConfiguringRecovery", "VaultReady">> }

\* The recovery button stays rendered in RecoveryReady: a further press starts
\* another submission.
RepeatedRecoveryTransitions == { <<"RecoveryReady", "ConfiguringRecovery">> }

ClientIsKept == smartClient # NULL => smartClient' = smartClient
CreateVaultOnlyBeforeSuccess ==
    vaultsCreated > 0 => createPresses' = createPresses

C9_NoKeyNoInteraction ==
    apiKey = "" =>
        /\ ConfigErrorView
        /\ ~CreateButtonRendered
        /\ ~GuardianButtonRendered
        /\ ~ENABLED Next
        /\ status = "Idle"
        /\ loading = FALSE
        /\ error = NULL
        /\ smartClient = NULL
        /\ inflight = <<>>
        /\ Presses = 0
        /\ ownerCalls = 0
        /\ sendLog = <<>>

\* The component is mounted without a key.
C9_Witness ==
    /\ apiKey = ""
    /\ ConfigErrorView
    /\ event.kind = "mount"

\* C10: every failure raised in createVault or enableRecovery ends the action
\* with the handler's failure status and an error that is the raised message,
\* or 'An unknown error occurred.' when that message is absent or empty; the
\* error is never null or empty then, and the invocation is over.
C10_FailuresAreCaught ==
    event.kind \in CreateVaultFailures \cup EnableRecoveryFailures =>
        LET raised   == event.raised
            expected == IF raised.hasMessage /\ raised.message # ""
                        THEN raised.message
                        ELSE "An unknown error occurred."
        IN  /\ status = IF event.kind \in CreateVaultFailures
                        THEN "Initialization Failed"
                        ELSE "Recovery Setup Failed"
            /\ error = <<expected>>
            /\ error # NULL
            /\ error[1] # ""
            /\ ~loading
            /\ inflight = <<>>

\* An account construction was rejected with no message: the fallback shows.
C10_Witness ==
    /\ event.kind = "accountRejected"
    /\ ~event.raised.hasMessage
    /\ error = <<"An unknown error occurred.">>
    /\ status = InitFailedStatus

ButtonPressed ==
    createPresses' # createPresses \/ recoveryPresses' # recoveryPresses

\* After a failure the matching button is rendered and enabled again.
RetryIsOffered ==
    /\ event.kind \in CreateVaultFailures =>
          /\ ~loading
          /\ CreateButtonEnabled
          /\ (Presses < MaxPresses => ENABLED ClickCreateVault)
    /\ event.kind \in EnableRecoveryFailures =>
          /\ ~loading
          /\ GuardianButtonEnabled
          /\ (Presses < MaxPresses => ENABLED ClickGuardianButton)

\* C11 as stated: after a failed createVault or enableRecovery the matching
\* button is enabled again, and starting the retry leaves the error null.
C11_Original ==
    /\ []RetryIsOffered
    /\ [][error # NULL /\ ButtonPressed => error' = NULL]_vars

\* C11, amended: after a failed createVault or enableRecovery the matching
\* button is enabled again; a retry that suspends at an external call leaves
\* the error null while it is in flight, and a retry of enableRecovery whose
\* encoding fails ends in the same run with the error of the new failure.
C11_RetryAfterFailure ==
    /\ []RetryIsOffered
    /\ [][error # NULL /\ ButtonPressed =>
            IF event'.kind = "encodeThrew"
            THEN /\ inflight' = <<>>
                 /\ error' = <<event'.raised.message>>
            ELSE /\ inflight' # <<>>
                 /\ loading'
                 /\ error' = NULL]_vars
    /\ [](inflight # <<>> => error = NULL)

\* The second createVault attempt, started after a failed one, has succeeded.
C11_Witness ==
    /\ event.kind = "vaultCreated"
    /\ createPresses = 2
    /\ vaultsCreated = 1
    /\ error = NULL

\* The setup payload of a batch: the argument of its setup call.
SetupData(batch) == batch[2].data.args[1]
\* The n-th 32-byte word of an encoded payload "0x...".
WordAt(data, n) == SubSeq(data, 3 + 64 * (n - 1), 2 + 64 * n)

\* C12: whatever guardian list enableRecovery is given (any order, any
\* contents that encode), the setup payload carries threshold 3 and delay
\* 172800 (0x2a300) seconds as its second and third words, after the offset
\* of the array.
C12_ThresholdAndDelay ==
    \A k \in 1..Len(sendLog) :
        LET data == SetupData(sendLog[k])
        IN  /\ SubSeq(data, 1, 2) = "0x"
            /\ WordAt(data, 1) =
                "0000000000000000000000000000000000000000000000000000000000000060"
            /\ WordAt(data, 2) =
                "0000000000000000000000000000000000000000000000000000000000000003"
            /\ WordAt(data, 3) =
                "000000000000000000000000000000000000000000000000000000000002a300"

\* Two submissions were made with the guardians in different orders.
C12_Witness ==
    /\ Len(sendLog) = 2
    /\ SetupData(sendLog[1]) # SetupData(sendLog[2])
    /\ WordAt(SetupData(sendLog[1]), 5) = WordAt(SetupData(sendLog[2]), 7)

\* The runs in which an awaited external call resolves or rejects.
SettleEvents ==
    {"ownerResolved", "ownerRejected", "vaultCreated", "accountRejected",
     "clientThrew", "sendResolved", "sendRejected"}

\* C13: while an external call awaited by createVault or enableRecovery has
\* not settled, loading is true, the status is the in-progress status of that
\* handler, no handler can be started, and the only step the component can
\* take is the settling of that call: there is no timeout or cancellation.
C13_HungCallHangsUI ==
    /\ [](inflight # <<>> =>
            /\ loading
            /\ status = IF inflight[1].handler = "createVault"
                        THEN "Initializing Biometric Vault..."
                        ELSE "Configuring 3-of-5 Guardian Protocol..."
            /\ ~ENABLED ClickCreateVault
            /\ ~ENABLED ClickGuardianButton)
    /\ [][inflight # <<>> =>
            /\ event'.kind \in SettleEvents
            /\ ~ButtonPressed]_vars

\* A submission is awaited, with presses left that the buttons do not take.
C13_Witness ==
    /\ Len(inflight) = 1
    /\ inflight[1].pc = "sendTransactions"
    /\ loading
    /\ Presses < MaxPresses

\* C14: an enableRecovery invocation calls sendTransactions at most once, with
\* exactly two calls in this order: enableModule(recovery module) addressed to
\* the smart account's own address, then setup(payload) addressed to the
\* recovery module, the payload carrying the guardians in the order given;
\* neither call is ever submitted without the other.
C14_OneBatchOfTwoCalls ==
    /\ [](/\ Len(sendLog) <= recoveryPresses
          /\ \A k \in 1..Len(sendLog) :
                LET batch == sendLog[k]
                IN  /\ Len(batch) = 2
                    /\ batch[1].to = smartClient[1].account.address
                    /\ batch[1].data.functionName = "enableModule"
                    /\ batch[1].data.args = <<RECOVERY_MODULE_ADDR>>
                    /\ batch[2].to = RECOVERY_MODULE_ADDR
                    /\ batch[2].data.functionName = "setup"
                    /\ Len(batch[2].data.args) = 1
                    /\ \A j \in 1..Len(buttonGuardians) :
                          WordAt(batch[2].data.args[1], 4 + j) =
                              "000000000000000000000000"
                                  \o SubSeq(buttonGuardians[j], 3, 42))
    /\ [][sendLog' # sendLog =>
            /\ recoveryPresses' = recoveryPresses + 1
            /\ Len(sendLog') = Len(sendLog) + 1
            /\ SubSeq(sendLog', 1, Len(sendLog)) = sendLog]_vars

\* Two presses of the recovery button have submitted one batch each.
C14_Witness ==
    /\ recoveryPresses = 2
    /\ Len(sendLog) = 2
    /\ sendLog[2][1].to \in { SafeAddress(k) : k \in ValidKeys }
    /\ sendLog[2][2].to = RECOVERY_MODULE_ADDR

\* C15: the component never retries or polls on its own: there are never more
\* sendTransactions calls than presses of the recovery button, nor more
\* getBiometricOwner calls than presses of the create button, and with nothing
\* in flight the state changes only by a button press.
C15_NoRetryNoPolling ==
    /\ [](/\ Len(sendLog) <= recoveryPresses
          /\ ownerCalls <= createPresses)
    /\ [][inflight = <<>> => ButtonPressed]_vars

\* An account construction was rejected and the component is at rest, one
\* owner call behind it for the one press.
C15_Witness ==
    /\ event.kind = "accountRejected"
    /\ inflight = <<>>
    /\ createPresses = 1
    /\ ownerCalls = 1
    /\ Presses < MaxPresses

\* The button's list holds an entry that is not 0x and 40 hex digits.
ListIsMalformed ==
    \E j \in 1..Len(buttonGuardians) : Len(buttonGuardians[j]) # 42

\* C16: with a guardian list that holds a malformed address, as the list of
\* the recovery button does, encoding fails before sendTransactions: nothing
\* is ever submitted or in flight for enableRecovery, and every press ends at
\* once with 'Recovery Setup Failed', an error, loading false and the client
\* kept.
C16_MalformedListNeverSubmits ==
    /\ [](ListIsMalformed =>
            /\ sendLog = <<>>
            /\ ~HasTask("enableRecovery")
            /\ status # "Configuring 3-of-5 Guardian Protocol..."
            /\ event.kind \notin {"sendTransactions", "sendResolved",
                                  "sendRejected"}
            /\ (event.kind = "encodeThrew" =>
                  /\ status = "Recovery Setup Failed"
                  /\ error # NULL
                  /\ error[1] # ""
                  /\ ~loading
                  /\ smartClient # NULL))
    /\ [][ListIsMalformed /\ recoveryPresses' # recoveryPresses =>
            /\ event'.kind = "encodeThrew"
            /\ smartClient' = smartClient
            /\ smartClient # NULL]_vars
    /\ [](buttonGuardians = GuardianButtonList => ListIsMalformed)

\* The recovery button of the source was pressed twice; both presses failed.
C16_Witness ==
    /\ buttonGuardians = GuardianButtonList
    /\ event.kind = "encodeThrew"
    /\ recoveryPresses = 2
    /\ status = RecoveryFailedStatus
    /\ sendLog = <<>>

\* C17: the error is non-null exactly when the status is 'Initialization
\* Failed' or 'Recovery Setup Failed'; it is null while loading is true and
\* under the statuses Idle, 'Vault Active: ...' and 'Recovery Protocol
\* Live: ...'.
C17_ErrorIffFailedStatus ==
    /\ (error # NULL) <=>
          (status \in {"Initialization Failed", "Recovery Setup Failed"})
    /\ loading => error = NULL
    /\ \/ status = "Idle"
       \/ Len(status) >= 14 /\ SubSeq(status, 1, 14) = "Vault Active: "
       \/ /\ Len(status) >= 24
          /\ SubSeq(status, 1, 24) = "Recovery Protocol Live: "
       => error = NULL

\* A second attempt failed after a first one had failed: the error shown is
\* the second one's, the first was cleared in between.
C17_Witness ==
    /\ status = "Initialization Failed"
    /\ error = <<"An unknown error occurred.">>
    /\ createPresses = 2
    /\ ~loading

\* The status starts with the given text.
StatusStartsWith(prefix) ==
    /\ Len(status) >= Len(prefix)
    /\ SubSeq(status, 1, Len(prefix)) = prefix

\* C18: the client is null exactly under the statuses Idle, the initializing
\* status and 'Initialization Failed', and non-null exactly under 'Vault
\* Active: ...', the configuring status, 'Recovery Protocol Live: ...' and
\* 'Recovery Setup Failed'; a 'Vault Active' status shows the address of the
\* stored client.
C18_StatusAgreesWithClient ==
    /\ (smartClient = NULL) <=>
          status \in {"Idle", "Initializing Biometric Vault...",
                      "Initialization Failed"}
    /\ (smartClient # NULL) <=>
          \/ StatusStartsWith("Vault Active: ")
          \/ status = "Configuring 3-of-5 Guardian Protocol..."
          \/ StatusStartsWith("Recovery Protocol Live: ")
          \/ status = "Recovery Setup Failed"
    /\ StatusStartsWith("Vault Active: ") =>
          /\ smartClient # NULL
          /\ LET address == smartClient[1].account.address
             IN  status = "Vault Active: " \o SubSeq(address, 1, 6)
                          \o "..." \o SubSeq(address, Len(address) - 3,
                                             Len(address))

\* A vault created on the second attempt, after a first one failed: the
\* status went Idle, initializing, failed, initializing, active.
C18_Witness ==
    /\ smartClient # NULL
    /\ StatusStartsWith("Vault Active: ")
    /\ createPresses = 2
    /\ vaultsCreated = 1

\* C19: every createVault attempt calls getBiometricOwner exactly once, before
\* the account is constructed, and uses the owner that its own call drew; the
\* call never fails.
C19_Original ==
    /\ [](/\ ownerCalls = createPresses
          /\ Len(owners) <= ownerCalls
          /\ \A i \in 1..Len(inflight) :
                inflight[i].pc = "toSafeSmartAccount" =>
                   /\ owners # <<>>
                   /\ inflight[i].owner = owners[Len(owners)])
    /\ [][event'.kind = "ownerResolved" => Len(owners') = Len(owners) + 1]_vars
    /\ [](event.kind # "ownerRejected")

\* C20: enableRecovery invoked while the client is null returns at once: it
\* makes no external call (nothing is sent, nothing is put in flight, no owner
\* is requested) and leaves loading, status, error and the client as they
\* were, whatever the list and whatever else is in flight.
C20_NullClientNoOp ==
    /\ [][(recoveryPresses' # recoveryPresses /\ smartClient = NULL) =>
            /\ event'.kind = "enableRecoveryReturned"
            /\ loading' = loading
            /\ status' = status
            /\ error' = error
            /\ smartClient' = NULL
            /\ sendLog' = sendLog
            /\ inflight' = inflight
            /\ ownerCalls' = ownerCalls]_vars
    /\ [](event.kind = "enableRecoveryReturned" =>
            /\ smartClient = NULL
            /\ sendLog = <<>>
            /\ ~HasTask("enableRecovery"))

\* enableRecovery returned at its first line while a createVault was
\* suspended: loading and the initializing status are still those of
\* createVault.
C20_Witness ==
    /\ event.kind = "enableRecoveryReturned"
    /\ smartClient = NULL
    /\ HasTask("createVault")
    /\ loading
    /\ status = "Initializing Biometric Vault..."
    /\ recoveryPresses = 1

====
